---- MODULE Spec2Model ----
(***************************************************************************)
(* alloc_nd_array: layout computation, allocation and pointer-table        *)
(* construction of N-dimensional arrays living in one heap block.          *)
(*                                                                         *)
(* size_t is Width bits wide (arithmetic on it wraps modulo 2^Width), a    *)
(* pointer cell is PtrSize bytes.  Addresses are byte offsets from the     *)
(* base of the block the allocation primitive returned.                    *)
(***************************************************************************)
EXTENDS Integers, Sequences, FiniteSets, TLC

Width == 8

PtrSize == 2

MaxDims == 3

MaxExtent == 3

MaxAlign == 9

Modulus == 2 ^ Width

SIZE_MAX == Modulus - 1

Wrap(x) == x % Modulus

\* Inputs the callers of the library are drawn from.
ExtentValues == (0 .. MaxExtent) \cup {SIZE_MAX \div 2, SIZE_MAX \div 2 + 1}

ElemSizes == {0, 1, PtrSize, PtrSize + 1, 4 * PtrSize}

PaddingValues == {0, 1, SIZE_MAX}

AlignValues == (0 .. MaxAlign) \cup {SIZE_MAX \div 2 + 1, SIZE_MAX}

Shapes == UNION {[1 .. n -> ExtentValues] : n \in 0 .. MaxDims}

VARIABLES
  sizes,          \* argument: the extents, dims = Len(sizes)
  elem_size,      \* argument: bytes per element
  value,          \* argument of anda_align_up
  alignment,      \* argument of anda_align_up
  res_ptrs,       \* caller's slot *result_ptrs_size
  res_pad,        \* caller's slot *result_padding_size
  res_total,      \* caller's slot *result_total_elements
  layout_ok,      \* the three slots hold a layout calculate_nd_array_size produced
  errno,          \* "none", "EINVAL" or "ENOMEM"
  anda_errfunc,   \* "NULL" or the recorded function name
  op,             \* the library function called last
  ret,            \* what it returned
  au_ret,         \* the size_t anda_align_up returned
  pad_arg,        \* padding the last allocating call built the block with
  alloc_calls,    \* invocations of the allocation primitive by the last call
  alloc_req,      \* byte count of the last request to the primitive
  alloc_got,      \* the primitive returned a block to the last call
  block_size,     \* size of the block the last successful allocation returned
  zeroed,         \* that block came from calloc
  writes,         \* the stores into it, in program order: [cell, val]
  layout_used,    \* the [ptrs, pad, total] it was built from
  live,           \* it has not been freed
  ub              \* a store went outside it

vars == <<sizes, elem_size, value, alignment, res_ptrs, res_pad, res_total,
          layout_ok, errno, anda_errfunc, op, ret, au_ret, pad_arg,
          alloc_calls, alloc_req, alloc_got, block_size, zeroed, writes,
          layout_used, live, ub>>

args == <<sizes, elem_size, value, alignment>>

slots == <<res_ptrs, res_pad, res_total, layout_ok>>

heap == <<pad_arg, alloc_calls, alloc_req, alloc_got, block_size, zeroed,
          writes, layout_used, live, ub>>

dims == Len(sizes)

----------------------------------------------------------------------------
(* Bit operations on size_t *)

RECURSIVE BitAnd(_, _)
BitAnd(x, y) ==
  IF x = 0 \/ y = 0 THEN 0
  ELSE (x % 2) * (y % 2) + 2 * BitAnd(x \div 2, y \div 2)

BitNot(x) == SIZE_MAX - x

----------------------------------------------------------------------------
(* anda_align_up: [ret |-> returned size_t, fail |-> errno was set] *)

\* (a variant whose division branch rounds down)
anda_align_up_rounddown(v, a) ==
  IF a = 1 THEN [ret |-> v, fail |-> FALSE]
  ELSE IF a = 0 \/ v > SIZE_MAX - (a - 1) THEN [ret |-> 0, fail |-> TRUE]
  ELSE IF BitAnd(a, a - 1) = 0
       THEN [ret |-> BitAnd(Wrap(v + (a - 1)), BitNot(a - 1)), fail |-> FALSE]
       ELSE [ret |-> Wrap((v \div a) * a), fail |-> FALSE]

anda_align_up(v, a) ==
  IF a = 1 THEN [ret |-> v, fail |-> FALSE]
  ELSE IF a = 0 \/ v > SIZE_MAX - (a - 1) THEN [ret |-> 0, fail |-> TRUE]
  ELSE IF BitAnd(a, a - 1) = 0
       THEN [ret |-> BitAnd(Wrap(v + (a - 1)), BitNot(a - 1)), fail |-> FALSE]
       ELSE [ret |-> Wrap((Wrap(v + (a - 1)) \div a) * a), fail |-> FALSE]

----------------------------------------------------------------------------
(* calculate_nd_array_size *)

\* A result: ok is the returned bool, ptrs/pad/total the slots after the
\* call, err whether errno was set to EINVAL, fn whether anda_errfunc was set.
CalcFail(p, q, t, e) ==
  [ok |-> FALSE, ptrs |-> p, pad |-> q, total |-> t, err |-> e, fn |-> e]

CalcOk(p, q, t) ==
  [ok |-> TRUE, ptrs |-> p, pad |-> q, total |-> t, err |-> FALSE, fn |-> FALSE]

\* dims == 1: [ok, ptrs, pad, total, err, fn]
\* (a variant whose bound check is off by one)
calc_1d_offbyone(s, es) ==
  IF s[1] = 0 \/ s[1] >= SIZE_MAX \div es
  THEN CalcFail(0, 0, 1, TRUE)
  ELSE CalcOk(0, 0, s[1])

calc_1d(s, es) ==
  IF s[1] = 0 \/ s[1] > SIZE_MAX \div es
  THEN CalcFail(0, 0, 1, TRUE)
  ELSE CalcOk(0, 0, s[1])

\* The loop over the dimensions from index i on (1-based), with the running
\* total_elements te and total_ptrs tp.
RECURSIVE calc_loop(_, _, _, _)
calc_loop(s, i, te, tp) ==
  IF i > Len(s) THEN [ok |-> TRUE, te |-> te, tp |-> tp]
  ELSE IF s[i] = 0 \/ te > SIZE_MAX \div s[i]
       THEN [ok |-> FALSE, te |-> te, tp |-> tp]
       ELSE LET te2 == Wrap(te * s[i])
                tp2 == IF i < Len(s) THEN Wrap(tp + te2) ELSE tp
            IN calc_loop(s, i + 1, te2, tp2)

\* The padding after a pointer region of size_ptrs bytes:
\* [fail, pad].
\* (a variant that pads a full element when the region is already aligned)
calc_padding_fullpad(size_ptrs, es) ==
  IF es > PtrSize
  THEN LET m == anda_align_up(size_ptrs, es)
       IN IF m.ret = 0 THEN [fail |-> TRUE, pad |-> 0]
          ELSE [fail |-> FALSE, pad |-> es - (size_ptrs % es)]
  ELSE [fail |-> FALSE, pad |-> 0]

calc_padding(size_ptrs, es) ==
  IF es > PtrSize
  THEN LET m == anda_align_up(size_ptrs, es)
       IN IF m.ret = 0 THEN [fail |-> TRUE, pad |-> 0]
          ELSE [fail |-> FALSE, pad |-> Wrap(m.ret - size_ptrs)]
  ELSE [fail |-> FALSE, pad |-> 0]

\* s: the extents, es: elem_size, prior: the slots before the call.
calculate_nd_array_size(s, es, prior) ==
  IF es = 0 \/ Len(s) = 0
  THEN CalcFail(prior.ptrs, prior.pad, prior.total, TRUE)
  ELSE IF Len(s) = 1 THEN calc_1d(s, es)
  ELSE LET l == calc_loop(s, 1, 1, 0)
       IN IF ~l.ok THEN CalcFail(0, 0, 1, TRUE)
          ELSE IF l.tp > SIZE_MAX \div PtrSize THEN CalcFail(0, 0, 1, FALSE)
          ELSE LET size_ptrs == Wrap(l.tp * PtrSize)
                   p == calc_padding(size_ptrs, es)
               IN IF p.fail THEN CalcFail(0, 0, 1, TRUE)
                  ELSE IF l.te > SIZE_MAX \div es
                          \/ Wrap(l.te * es) > Wrap(Wrap(SIZE_MAX - size_ptrs) - p.pad)
                       THEN CalcFail(0, 0, 1, TRUE)
                       ELSE CalcOk(size_ptrs, p.pad, l.te)

----------------------------------------------------------------------------
(* allocate_and_initialize_nd_array *)

\* The byte count handed to alloc_func.
alloc_request(s, es, size_ptrs, size_padding, total_elements) ==
  IF Len(s) = 1 THEN Wrap(total_elements * es)
  ELSE Wrap(Wrap(size_ptrs + size_padding) + Wrap(total_elements * es))

\* The stores of the loop over d (0-based) for the levels above the last
\* one; ptr is the cell index `ptr` stands at, curr is curr_level.
\* [w |-> the stores, ptr |-> where ptr stands afterwards].
upper_level_stores(ptr, cl, nl) ==
  [k \in 1 .. cl |->
     [cell |-> ptr + (k - 1),
      val  |-> (ptr + cl + Wrap((k - 1) * nl)) * PtrSize]]

RECURSIVE upper_levels(_, _, _, _)
upper_levels(s, d, ptr, curr) ==
  IF d >= Len(s) - 2 THEN [w |-> <<>>, ptr |-> ptr]
  ELSE LET cl   == Wrap(curr * s[d + 1])
           rest == upper_levels(s, d + 1, ptr + cl, cl)
       IN [w   |-> upper_level_stores(ptr, cl, s[d + 2]) \o rest.w,
           ptr |-> rest.ptr]

\* The stores of the last pointer level; data is the address of the leaf
\* region.
leaf_level(s, es, ptr, data, total_elements) ==
  LET last == s[Len(s)]
  IN [k \in 1 .. (total_elements \div last) |->
        [cell |-> ptr + (k - 1),
         val  |-> data + Wrap(Wrap((k - 1) * last) * es)]]

\* [req |-> bytes requested, w |-> the stores made when the primitive
\* returns a block].
allocate_and_initialize_nd_array(s, es, size_ptrs, size_padding, total_elements) ==
  LET req == alloc_request(s, es, size_ptrs, size_padding, total_elements)
  IN IF Len(s) = 1 THEN [req |-> req, w |-> <<>>]
     ELSE LET up   == upper_levels(s, 0, 0, 1)
              data == size_ptrs + size_padding
          IN [req |-> req,
              w   |-> up.w \o leaf_level(s, es, up.ptr, data, total_elements)]

\* A store is inside a block of n bytes when the whole cell is.
InBlock(cell, n) == (cell + 1) * PtrSize <= n

OutOfBounds(w, n) == \E k \in 1 .. Len(w) : ~InBlock(w[k].cell, n)

----------------------------------------------------------------------------
(* The calls *)

\* Values an uninitialized size_t of the caller may hold.
UninitValues == {0, SIZE_MAX}

\* Locals of a wrapper before calculate_nd_array_size fills them.
Locals == [ptrs |-> 0, pad |-> 0, total |-> 0]

Running == ret # "crashed"

\* calculate_nd_array_size failed inside the wrapper `name`.
LayoutFailed(name, c) ==
  /\ errno' = IF c.err THEN "EINVAL" ELSE errno
  /\ anda_errfunc' = name
  /\ ret' = "NULL"
  /\ alloc_calls' = 0
  /\ alloc_got' = FALSE
  /\ UNCHANGED <<pad_arg, alloc_req, block_size, zeroed, writes, layout_used,
                 live, ub>>

\* allocate_and_initialize_nd_array with the layout (p, q, t); got: the
\* primitive returned a block; zero: the primitive is calloc_wrapper;
\* errname: the name anda_errfunc holds when the call has failed.
Construct(p, q, t, zero, got, errname) ==
  LET b   == allocate_and_initialize_nd_array(sizes, elem_size, p, q, t)
      oob == OutOfBounds(b.w, b.req)
  IN /\ alloc_calls' = 1
     /\ alloc_req' = b.req
     /\ alloc_got' = got
     /\ pad_arg' = q
     /\ IF ~got
        THEN /\ errno' = "ENOMEM"
             /\ anda_errfunc' = errname
             /\ ret' = "NULL"
             /\ UNCHANGED <<block_size, zeroed, writes, layout_used, live, ub>>
        ELSE /\ block_size' = b.req
             /\ zeroed' = zero
             /\ writes' = b.w
             /\ layout_used' = [ptrs |-> p, pad |-> q, total |-> t]
             /\ live' = TRUE
             /\ ub' = oob
             \* a store outside the block is undefined: the call may still
             \* return the block, or the process dies
             /\ ret' \in (IF oob THEN {"block", "crashed"} ELSE {"block"})
             /\ UNCHANGED <<errno, anda_errfunc>>

Wrapper(name, zero, manual) ==
  /\ Running
  /\ op' = name
  /\ UNCHANGED <<args, slots, au_ret>>
  /\ LET c == calculate_nd_array_size(sizes, elem_size, Locals)
     IN IF ~c.ok THEN LayoutFailed(name, c)
        ELSE \E got \in BOOLEAN,
                padding_bytes \in (IF manual THEN PaddingValues ELSE {c.pad}) :
               Construct(c.ptrs, padding_bytes, c.total, zero, got, name)

calculate_nd_array_size_call ==
  /\ Running
  /\ LET c == calculate_nd_array_size(sizes, elem_size,
                [ptrs |-> res_ptrs, pad |-> res_pad, total |-> res_total])
     IN /\ res_ptrs' = c.ptrs
        /\ res_pad' = c.pad
        /\ res_total' = c.total
        /\ layout_ok' = c.ok
        /\ errno' = IF c.err THEN "EINVAL" ELSE errno
        /\ anda_errfunc' = IF c.fn THEN "calculate_nd_array_size" ELSE anda_errfunc
        /\ ret' = IF c.ok THEN "true" ELSE "false"
  /\ op' = "calculate_nd_array_size"
  /\ alloc_calls' = 0
  /\ alloc_got' = FALSE
  /\ UNCHANGED <<args, au_ret, pad_arg, alloc_req, block_size, zeroed, writes,
                 layout_used, live, ub>>

\* The low-level call: the caller passes the layout calculate_nd_array_size
\* stored for the same sizes and elem_size.
allocate_and_initialize_nd_array_call ==
  /\ Running
  /\ layout_ok
  /\ op' = "allocate_and_initialize_nd_array"
  /\ UNCHANGED <<args, slots, au_ret>>
  /\ \E got \in BOOLEAN, zero \in BOOLEAN :
       Construct(res_ptrs, res_pad, res_total, zero, got,
                 "allocate_and_initialize_nd_array")

alloc_nd_array == Wrapper("alloc_nd_array", FALSE, FALSE)

calloc_nd_array == Wrapper("calloc_nd_array", TRUE, FALSE)

alloc_nd_array_manual_padding ==
  Wrapper("alloc_nd_array_manual_padding", FALSE, TRUE)

calloc_nd_array_manual_padding ==
  Wrapper("calloc_nd_array_manual_padding", TRUE, TRUE)

\* free_nd_array on the block the last allocation returned.
free_nd_array ==
  /\ Running
  /\ live
  /\ ret = "block"
  /\ op' = "free_nd_array"
  /\ ret' = "none"
  /\ live' = FALSE
  /\ alloc_calls' = 0
  /\ alloc_got' = FALSE
  /\ UNCHANGED <<args, slots, au_ret, errno, anda_errfunc, pad_arg, alloc_req,
                 block_size, zeroed, writes, layout_used, ub>>

anda_align_up_call ==
  /\ Running
  /\ LET r == anda_align_up(value, alignment)
     IN /\ au_ret' = r.ret
        /\ errno' = IF r.fail THEN "EINVAL" ELSE errno
        /\ ret' = IF r.fail THEN "failed" ELSE "value"
  /\ op' = "anda_align_up"
  /\ UNCHANGED <<args, slots, anda_errfunc, heap>>

----------------------------------------------------------------------------
(* Specifications *)

Fresh ==
  /\ layout_ok = FALSE
  /\ errno = "none"
  /\ anda_errfunc = "NULL"
  /\ op = "none"
  /\ ret = "none"
  /\ au_ret = 0
  /\ pad_arg = 0
  /\ alloc_calls = 0
  /\ alloc_req = 0
  /\ alloc_got = FALSE
  /\ block_size = 0
  /\ zeroed = FALSE
  /\ writes = <<>>
  /\ layout_used = Locals
  /\ live = FALSE
  /\ ub = FALSE

\* A caller about to use the array functions on one shape.
Init ==
  /\ sizes \in Shapes
  /\ elem_size \in ElemSizes
  /\ value = 0
  /\ alignment = 1
  /\ \E g \in UninitValues : res_ptrs = g /\ res_pad = g /\ res_total = g
  /\ Fresh

\* The caller makes one request for its shape: a wrapper, or the low-level
\* pair calculate_nd_array_size, allocate_and_initialize_nd_array; it frees
\* the block it got.
First == op = "none"

Next ==
  \/ First /\ calculate_nd_array_size_call
  \/ op = "calculate_nd_array_size" /\ allocate_and_initialize_nd_array_call
  \/ First /\ alloc_nd_array
  \/ First /\ calloc_nd_array
  \/ First /\ alloc_nd_array_manual_padding
  \/ First /\ calloc_nd_array_manual_padding
  \/ free_nd_array

Spec == Init /\ [][Next]_vars

\* A caller about to round one value up.
InitAlign ==
  /\ sizes = <<>>
  /\ elem_size = 1
  /\ value \in 0 .. SIZE_MAX
  /\ alignment \in AlignValues
  /\ res_ptrs = 0 /\ res_pad = 0 /\ res_total = 0
  /\ Fresh

NextAlign == First /\ anda_align_up_call

SpecAlign == InitAlign /\ [][NextAlign]_vars

----------------------------------------------------------------------------
(* Exact (unbounded) arithmetic the properties are stated in *)

RECURSIVE Product(_, _)
\* s[1] * ... * s[n]
Product(s, n) == IF n = 0 THEN 1 ELSE Product(s, n - 1) * s[n]

RECURSIVE PtrCells(_, _)
\* The pointer cells of the levels 1 .. n: the sum of the cumulative products.
PtrCells(s, n) == IF n = 0 THEN 0 ELSE PtrCells(s, n - 1) + Product(s, n)

\* The least multiple of a that is >= v (a >= 1).
LeastMultiple(v, a) == CHOOSE m \in v .. v + a - 1 : m % a = 0

ValidShape == dims >= 1 /\ \A k \in 1 .. dims : sizes[k] >= 1

ExactPtrBytes == PtrSize * PtrCells(sizes, dims - 1)

ExactAligned ==
  IF elem_size > PtrSize THEN LeastMultiple(ExactPtrBytes, elem_size)
  ELSE ExactPtrBytes

ExactBlockBytes == ExactAligned + Product(sizes, dims) * elem_size

Calculated == op = "calculate_nd_array_size"

----------------------------------------------------------------------------
(* C2: for dims >= 2, extents >= 1 and elem_size >= 1, when                *)
(* calculate_nd_array_size returns true, total_elements is the exact       *)
(* product of the extents and pointer_region_size is sizeof(void* ) times   *)
(* the exact sum of the cumulative products of the levels 0 .. dims-2.     *)
C2_ExactLayout ==
  (Calculated /\ ret = "true" /\ dims >= 2)
    => /\ res_total = Product(sizes, dims)
       /\ res_ptrs = PtrSize * PtrCells(sizes, dims - 1)

(* C3: for dims == 1, extents[0] >= 1 and elem_size >= 1,                  *)
(* calculate_nd_array_size returns true exactly when extents[0] *          *)
(* elem_size does not exceed SIZE_MAX, and then pointer_region_size == 0,  *)
(* padding_size == 0 and total_elements == extents[0].                     *)
C3_OneDimension ==
  (Calculated /\ dims = 1 /\ sizes[1] >= 1 /\ elem_size >= 1)
    => /\ (ret = "true") <=> (sizes[1] * elem_size <= SIZE_MAX)
       /\ ret = "true" => /\ res_ptrs = 0
                          /\ res_pad = 0
                          /\ res_total = sizes[1]

C3_Witness ==
  /\ Calculated /\ dims = 1 /\ ret = "true"
  /\ sizes[1] > 1 /\ elem_size > 1 /\ res_total = sizes[1]

(* C4: for dims >= 2 and extents >= 1, when the exact value of the running *)
(* product, of the pointer-cell count, of the pointer bytes, of the        *)
(* aligned pointer region or of the whole block exceeds SIZE_MAX,          *)
(* calculate_nd_array_size returns false.                                  *)
C4_OverflowFails ==
  (/\ Calculated /\ dims >= 2 /\ ValidShape /\ elem_size >= 1
   /\ \/ Product(sizes, dims) > SIZE_MAX
      \/ PtrCells(sizes, dims - 1) > SIZE_MAX
      \/ ExactPtrBytes > SIZE_MAX
      \/ ExactAligned > SIZE_MAX
      \/ ExactBlockBytes > SIZE_MAX)
    => ret = "false"

(* C5: when calculate_nd_array_size returns true for dims >= 2,            *)
(* padding_size is 0 if elem_size <= sizeof(void* ), and otherwise the      *)
(* smallest value that makes pointer_region_size + padding_size a multiple *)
(* of elem_size, so it is below elem_size.                                 *)
C5_Padding ==
  (Calculated /\ ret = "true" /\ dims >= 2)
    => IF elem_size <= PtrSize THEN res_pad = 0
       ELSE /\ res_pad \in 0 .. elem_size - 1
            /\ (res_ptrs + res_pad) % elem_size = 0
            /\ \A q \in 0 .. res_pad - 1 : (res_ptrs + q) % elem_size # 0

C5_Witness ==
  /\ Calculated /\ ret = "true" /\ dims >= 2
  /\ elem_size > PtrSize /\ res_pad > 0

(* C7: whenever calculate_nd_array_size returns false, the three output    *)
(* slots hold pointer_region_size == 0, padding_size == 0 and              *)
(* total_elements == 1, whatever they held before and whichever            *)
(* validation failed.                                                      *)
C7_FailClean ==
  (Calculated /\ ret = "false")
    => res_ptrs = 0 /\ res_pad = 0 /\ res_total = 1

----------------------------------------------------------------------------
Aligned == op = "anda_align_up"

PowersOfTwo == {2 ^ k : k \in 0 .. Width - 1}

(* C10: whenever anda_align_up(v, a) does not report failure its result is *)
(* the least multiple of a that is >= v; anda_align_up(0, a) is 0 for      *)
(* every a >= 1, anda_align_up(v, 1) is v for every v, and for a power of  *)
(* two a the result equals ((v + a - 1) / a) * a.                          *)
C10_AlignUp ==
  Aligned =>
    /\ ret = "value" => au_ret = LeastMultiple(value, alignment)
    /\ (value = 0 /\ alignment >= 1) => (ret = "value" /\ au_ret = 0)
    /\ alignment = 1 => (ret = "value" /\ au_ret = value)
    /\ (ret = "value" /\ alignment \in PowersOfTwo)
         => au_ret = ((value + alignment - 1) \div alignment) * alignment

C10_Witness ==
  /\ Aligned /\ ret = "value"
  /\ alignment > 1 /\ alignment \notin PowersOfTwo
  /\ value % alignment # 0 /\ au_ret > value

----------------------------------------------------------------------------
(* Reading the block *)

WrapperNames == {"alloc_nd_array", "calloc_nd_array",
                 "alloc_nd_array_manual_padding",
                 "calloc_nd_array_manual_padding"}

ManualNames == {"alloc_nd_array_manual_padding",
                "calloc_nd_array_manual_padding"}

\* The calls that build the block from the layout calculate_nd_array_size
\* produced, unchanged.
CalculatedLayoutNames == {"alloc_nd_array", "calloc_nd_array",
                          "allocate_and_initialize_nd_array"}

\* The layout calculate_nd_array_size produces for the caller's arguments.
LayoutOf == calculate_nd_array_size(sizes, elem_size, Locals)

StoresTo(cell) == {k \in 1 .. Len(writes) : writes[k].cell = cell}

\* A pointer cell of the block that holds a stored pointer.
Readable(cell) == InBlock(cell, block_size) /\ StoresTo(cell) # {}

\* The pointer it holds: the last one stored.
Stored(cell) ==
  LET ks == StoresTo(cell)
  IN writes[CHOOSE k \in ks : \A j \in ks : j <= k].val

\* The multi-indices (i_1 .. i_n), 0 <= i_k < s[k].
RECURSIVE IdxSet(_, _)
IdxSet(s, n) ==
  IF n = 0 THEN {<<>>}
  ELSE {Append(i, j) : i \in IdxSet(s, n - 1), j \in 0 .. s[n] - 1}

\* Row-major position of the multi-index i among the elements.
RECURSIVE RowMajor(_, _, _)
RowMajor(s, i, n) ==
  IF n = 0 THEN 0 ELSE RowMajor(s, i, n - 1) * s[n] + i[n]

\* Following base[i_1][i_2]...[i_n] from address addr, level k on: the
\* address reached, or -1 when a pointer is read that is not a stored cell
\* of the block.
RECURSIVE Follow(_, _, _, _)
Follow(addr, i, k, n) ==
  IF k > n THEN addr
  ELSE LET a == addr + i[k] * PtrSize
       IN IF a % PtrSize = 0 /\ Readable(a \div PtrSize)
          THEN Follow(Stored(a \div PtrSize), i, k + 1, n)
          ELSE -1

\* Address of the leaf slot of the multi-index i (all dims indices).
LeafSlot(i) == Follow(0, i, 1, dims - 1) + i[dims] * elem_size

----------------------------------------------------------------------------
(* C1: for dims >= 2 and the layout calculate_nd_array_size produced,      *)
(* after a successful construction the pointer chain through               *)
(* (i0 .. i_{dims-2}) leads to data_start + rowmajor(i0 .. i_{dims-2}, 0)  *)
(* * elem_size with data_start = pointer_region_size + padding_size; the   *)
(* leaf slots of distinct multi-indices do not overlap and all lie inside  *)
(* the block.                                                              *)
C1_PointerChain ==
  (op \in CalculatedLayoutNames /\ ret = "block" /\ dims >= 2)
    => LET data_start == layout_used.ptrs + layout_used.pad
           I == IdxSet(sizes, dims)
       IN /\ \A i \in I :
               /\ Follow(0, i, 1, dims - 1)
                    = data_start
                      + RowMajor(sizes, [i EXCEPT ![dims] = 0], dims) * elem_size
               /\ LeafSlot(i) >= data_start
               /\ LeafSlot(i) + elem_size <= block_size
          /\ \A i, j \in I :
               i # j => \/ LeafSlot(i) + elem_size <= LeafSlot(j)
                        \/ LeafSlot(j) + elem_size <= LeafSlot(i)

(* C8: for dims >= 2 and the layout calculate_nd_array_size produced,      *)
(* construction stores into each of the pointer_region_size /              *)
(* sizeof(void* ) pointer cells exactly once and stores nothing at or       *)
(* beyond offset pointer_region_size, so padding and leaf bytes stay as    *)
(* the primitive returned them (zero for the calloc variants).             *)
C8_PointerRegionOnly ==
  (op \in CalculatedLayoutNames /\ ret = "block" /\ dims >= 2)
    => /\ \A cell \in 0 .. (layout_used.ptrs \div PtrSize) - 1 :
            Cardinality(StoresTo(cell)) = 1
       /\ \A k \in 1 .. Len(writes) :
            (writes[k].cell + 1) * PtrSize <= layout_used.ptrs
       /\ layout_used.ptrs + layout_used.pad
            + layout_used.total * elem_size <= block_size
       /\ op = "calloc_nd_array" => zeroed

(* C6: for each of the four allocation entry points: when the layout      *)
(* computation fails the primitive is invoked zero times and NULL is       *)
(* returned; otherwise it is invoked exactly once, and the call returns    *)
(* NULL exactly when that invocation returned NULL and else returns the    *)
(* block the primitive returned.                                           *)
C6_SinglePrimitiveCall ==
  op \in WrapperNames
    => IF ~LayoutOf.ok
       THEN alloc_calls = 0 /\ ret = "NULL"
       ELSE /\ alloc_calls = 1
            /\ (ret = "NULL") <=> ~alloc_got
            /\ alloc_got => ret = "block"

(* C9: for dims >= 2 and any padding_bytes, when the layout computation    *)
(* succeeds the manual-padding variants request exactly                    *)
(* pointer_region_size + padding_bytes + total_elements * elem_size bytes  *)
(* (the exact integer), and the last-level pointer cells address a leaf    *)
(* region that starts at offset pointer_region_size + padding_bytes and    *)
(* ends at the end of the requested block.                                 *)
C9_ManualRequest ==
  (op \in ManualNames /\ dims >= 2 /\ LayoutOf.ok)
    => LET data_start == LayoutOf.ptrs + pad_arg
           row        == sizes[dims] * elem_size
           n          == LayoutOf.total \div sizes[dims]
       IN /\ alloc_req = data_start + LayoutOf.total * elem_size
          /\ ret = "block" =>
               /\ Len(writes) >= n
               /\ \A k \in 1 .. n :
                    writes[Len(writes) - n + k].val = data_start + (k - 1) * row
               /\ data_start + n * row = block_size

----------------------------------------------------------------------------
(* C11: anda_align_up(v, a) returns the failure sentinel 0 with errno set  *)
(* to EINVAL exactly when a == 0 or the least multiple of a that is >= v   *)
(* exceeds SIZE_MAX; whenever a >= 1 and that multiple is representable    *)
(* the call succeeds.                                                      *)
C11_FailsExactlyOnOverflow ==
  Aligned =>
    ((ret = "failed" /\ au_ret = 0 /\ errno = "EINVAL")
       <=> (IF alignment = 0 THEN TRUE
            ELSE LeastMultiple(value, alignment) > SIZE_MAX))

----------------------------------------------------------------------------
(* Sequences of calls *)

SeqShapes == {<<>>, <<1>>, <<2, 3>>, <<SIZE_MAX \div 2 + 1, 1>>}

SeqElemSizes == {0, 1, PtrSize + 1}

\* A caller about to make any number of calls for one shape.
InitSeq ==
  /\ sizes \in SeqShapes
  /\ elem_size \in SeqElemSizes
  /\ value = 0
  /\ alignment = 1
  /\ \E g \in UninitValues : res_ptrs = g /\ res_pad = g /\ res_total = g
  /\ Fresh

NextSeq ==
  \/ calculate_nd_array_size_call
  \/ allocate_and_initialize_nd_array_call
  \/ alloc_nd_array
  \/ calloc_nd_array
  \/ alloc_nd_array_manual_padding
  \/ calloc_nd_array_manual_padding
  \/ free_nd_array

SpecSeq == InitSeq /\ [][NextSeq]_vars

ErrNames == WrapperNames \cup {"calculate_nd_array_size",
                               "allocate_and_initialize_nd_array"}

\* The last call was one of the six fallible functions and failed.
Failed == op \in ErrNames /\ ret \in {"false", "NULL"}

(* C12: over any sequence of calls anda_errfunc is NULL until the first    *)
(* failure, and right after a failing call of calculate_nd_array_size,     *)
(* allocate_and_initialize_nd_array or a wrapper it is the name of the     *)
(* function the caller invoked and errno is EINVAL or ENOMEM; a failing    *)
(* call never leaves the name an earlier call recorded.                    *)
C12_ErrfuncNamesFailingCall ==
  /\ anda_errfunc = "NULL"
  /\ [][/\ Failed' => /\ anda_errfunc' = op'
                      /\ errno' \in {"EINVAL", "ENOMEM"}
        /\ ~Failed' => anda_errfunc' = anda_errfunc]_vars

====
